---- MODULE Spec2Model ----
(***************************************************************************)
(* A model of the request dispatch core of the WordPress MCP server:       *)
(*   - JsonRpcHandler (json-rpc/handler.ts): method registry, envelope     *)
(*     validation, method invocation, error mapping, batch processing;     *)
(*   - WordPressSiteManager (wordpress/site-manager.ts): per-site client   *)
(*     construction, connectivity probe and client cache.                  *)
(*   - ApiKeyManager (auth/api-keys.ts): key lookup, the active key set    *)
(*     and its reloads from a file or from the environment, and the        *)
(*     authentication middleware in front of the HTTP routes;              *)
(*   - ResourceUri (types/resources.ts): building and parsing the URIs of  *)
(*     resources.                                                          *)
(* JavaScript values are modelled by strings and records; `undefined` is   *)
(* the string Undefined and JSON null is the string Null.                  *)
(***************************************************************************)
EXTENDS Integers, Sequences, FiniteSets, TLC

VARIABLES
    phase,        \* "startup" (tools are being registered) or "serving"
    methods,      \* JsonRpcHandler.methods: name -> MethodHandler or NotRegistered
    regEvent,     \* what the latest registerMethod call did (NoRegEvent otherwise)
    nodeEnv,      \* process.env.NODE_ENV
    request,      \* the argument of the processRequest call in flight / last made
    tasks,        \* one record per envelope of that call: its processRequest promise
    callState,    \* "idle", "running" or "returned"
    callResult,   \* what the promise returned by processRequest settled to
    sites,        \* WordPressSiteManager.sites: the configured site ids
    clients,      \* WordPressSiteManager.clients: site id -> client id or NoClient
    calls,        \* the getClient calls made so far, each with its position
    nextClient,   \* number of WordPressClient objects constructed so far
    probes,       \* number of checkConnection probes started so far
    siteEvent,    \* what the latest addSite / removeSite call did
    source,       \* ApiKeyManager.source: where the keys are loaded from
    keys,         \* ApiKeyManager.keys: the active key set, in storage order
    loading,      \* ApiKeyManager.loading: a loadKeys call is in progress
    lastLoaded,   \* ApiKeyManager.lastLoaded: time of the last completed load
    now,          \* Date.now()
    loadEvent,    \* what the latest load read from its source
    lastValidation, \* the latest validateApiKey call and its result
    reads,        \* number of key file reads (loadKeysFromFile) in flight
    authEvent,    \* what the authentication middleware did with the latest request
    uriArgs,      \* the arguments of the latest ResourceUri.create call, if any
    uriText,      \* the resource URI at hand
    uriParsed     \* what ResourceUri.parse made of it

rpcVars == <<phase, methods, regEvent, nodeEnv, request, tasks, callState, callResult>>
siteVars == <<sites, clients, calls, nextClient, probes, siteEvent>>
uriVars == <<uriArgs, uriText, uriParsed>>
keyVars == <<source, keys, loading, lastLoaded, now, loadEvent, lastValidation,
             reads, authEvent>>
vars == <<phase, methods, regEvent, nodeEnv, request, tasks, callState, callResult,
          sites, clients, calls, nextClient, probes, siteEvent,
          source, keys, loading, lastLoaded, now, loadEvent, lastValidation,
          reads, authEvent,
          uriArgs, uriText, uriParsed>>

----------------------------------------------------------------------------
(* Bounds of the model *)

MaxBatch == 2
MaxCalls == 2
MaxConfig == 2
MaxTime == 12
MaxLen == 2
MaxUriLen == 5

----------------------------------------------------------------------------
(* JavaScript values *)

Undefined == "undefined"
Null == "null"

\* JsonRpcHandler.ERROR_CODES
PARSE_ERROR == -32700
INVALID_REQUEST == -32600
METHOD_NOT_FOUND == -32601
INVALID_PARAMS == -32602
INTERNAL_ERROR == -32603
WP_AUTH_ERROR == -32000
WP_PERMISSION_ERROR == -32001
WP_RESOURCE_NOT_FOUND == -32002

WP_VALIDATION_ERROR == -32003
RATE_LIMIT_EXCEEDED == -32029

\* The codes of the JsonRpcErrors getClient throws
UNKNOWN_SITE == -32001
CONNECTION_FAILED == -32002

\* error.data values
DataUndefined == [tag |-> "undefined", message |-> ""]
DataString(m) == [tag |-> "string", message |-> m]
DataMessageObject(m) == [tag |-> "object-with-message", message |-> m]
DataZodFormat == [tag |-> "zod-format", message |-> ""]
DataCustom == [tag |-> "handler-data", message |-> ""]

\* Values a promise can reject with / a function can throw
JsonRpcError(message, code, data) ==
    [kind |-> "JsonRpcError", name |-> "JsonRpcError", message |-> message,
     code |-> code, data |-> data]
PlainError(name, message) ==
    [kind |-> "Error", name |-> name, message |-> message, code |-> 0,
     data |-> DataUndefined]
\* null or undefined used as a rejection value: it has no properties
Nullish ==
    [kind |-> "nullish", name |-> "", message |-> "", code |-> 0,
     data |-> DataUndefined]
\* what reading a property of null/undefined throws
TypeErrorOnNullish == PlainError("TypeError", "Cannot read properties of null")
\* ZodError thrown by schema.parse
ZodError == PlainError("ZodError", "zod issues")

----------------------------------------------------------------------------
(* Request context (types/context.ts) *)

RootContext == [correlationId |-> "corr-1", authContext |-> "client-A", path |-> <<>>]

\* new RequestContext(correlationId, parent)
NewContext(correlationId, parent) ==
    [correlationId |-> correlationId,
     authContext |-> parent.authContext,
     path |-> IF Len(parent.path) > 0 THEN parent.path ELSE <<>>]

\* RequestContext.createChild(pathSegment)
CreateChild(ctx, pathSegment) ==
    LET child == NewContext(ctx.correlationId, ctx)
    IN  IF pathSegment # Undefined
        THEN [child EXCEPT !.path = Append(child.path, pathSegment)]
        ELSE child

----------------------------------------------------------------------------
(* Envelopes *)

MethodNames == {"m1", "m2"}
Ids == {"1", "2", Null}

Envelope(shape, jsonrpc, method, params, id) ==
    [shape |-> shape, jsonrpc |-> jsonrpc, method |-> method, params |-> params,
     id |-> id]

\* Envelopes that pass validateRequest: requests (with an id) and notifications
ValidEnvelopes ==
    { Envelope("object", "2.0", m, p, i) :
        m \in MethodNames, p \in {"pOk", "pBad"}, i \in {"1", "2", Undefined} }
    \cup { Envelope("object", "2.0", "m1", "pOk", Null),
           Envelope("object", "2.0", "m1", Undefined, "1") }

\* Envelopes with one structural fault each
InvalidEnvelopes ==
    { Envelope("primitive", Undefined, Undefined, Undefined, Undefined),
      Envelope("object", "1.0", "m1", "pOk", "1"),
      Envelope("object", "1.0", "m1", "pOk", Undefined),
      Envelope("object", "2.0", "", "pOk", "2"),
      Envelope("object", "2.0", "m1", "pPrimitive", "1"),
      Envelope("object", "2.0", "m1", "pOk", "idOfOtherType") }

Envelopes == ValidEnvelopes \cup InvalidEnvelopes

\* Batch items that are arrays themselves: [] and an array of one primitive
ArrayShapes == {"emptyArray", "arrayOfPrimitive"}
ArrayItems ==
    { Envelope(shape, Undefined, Undefined, Undefined, Undefined) : shape \in ArrayShapes }

\* The elements of an array item
NestedItems(req) ==
    IF req.shape = "emptyArray"
    THEN <<>>
    ELSE <<Envelope("primitive", Undefined, Undefined, Undefined, Undefined)>>

\* The envelopes batches are made of: requests and notifications of both
\* methods, with params the schema accepts or rejects, invalid items, and
\* items that are arrays
BatchEnvelopes ==
    { Envelope("object", "2.0", m, "pOk", i) :
        m \in MethodNames, i \in {"1", "2", Undefined} }
    \cup { Envelope("object", "2.0", "m1", "pBad", "1"),
           Envelope("object", "2.0", "m1", "pBad", Undefined),
           Envelope("primitive", Undefined, Undefined, Undefined, Undefined),
           Envelope("object", "1.0", "m1", "pOk", "1") }
    \cup ArrayItems

IsNotification(env) == env.shape = "object" /\ env.id = Undefined

----------------------------------------------------------------------------
(* Responses *)

NoMember == "<no member>"
NoError == [code |-> 0, message |-> "", data |-> DataUndefined]

\* the object literal of processRequest's success path
SuccessResponse(result, id) ==
    [jsonrpc |-> "2.0", has |-> "result", result |-> result, error |-> NoError,
     id |-> id]

\* The result and error members of the JSON text res.json(response) sends for
\* a response object: JSON.stringify leaves out a member whose value is
\* undefined
Members(resp) ==
    (IF resp.has = "result" /\ resp.result # Undefined THEN {"result"} ELSE {})
    \cup (IF resp.has = "error" THEN {"error"} ELSE {})

\* JsonRpcHandler.createErrorResponse
CreateErrorResponse(id, code, message, data) ==
    [jsonrpc |-> "2.0", has |-> "error", result |-> NoMember,
     error |-> [code |-> code, message |-> message, data |-> data],
     id |-> id]

NoResponse ==
    [jsonrpc |-> "", has |-> "", result |-> NoMember, error |-> NoError,
     id |-> Undefined]

\* An array standing where a response is expected (its elements are not
\* looked at)
ArrayElement ==
    [jsonrpc |-> "", has |-> "array", result |-> NoMember, error |-> NoError,
     id |-> Undefined]

\* What a promise returned by processRequest settles to
ResolvedResponse(resp) ==
    [tag |-> "response", resp |-> resp, resps |-> <<>>, reason |-> Nullish]
ResolvedNull ==
    [tag |-> "null", resp |-> NoResponse, resps |-> <<>>, reason |-> Nullish]
ResolvedArray(resps) ==
    [tag |-> "array", resp |-> NoResponse, resps |-> resps, reason |-> Nullish]
Rejected(reason) ==
    [tag |-> "rejected", resp |-> NoResponse, resps |-> <<>>, reason |-> reason]
NotSettled ==
    [tag |-> "pending", resp |-> NoResponse, resps |-> <<>>, reason |-> Nullish]

----------------------------------------------------------------------------
(* Method registry *)

NotRegistered == [handler |-> "", schema |-> "", name |-> "", description |-> ""]

\* The handler functions tool modules register, named by what they do when called
Handlers ==
    {"hReturn", "hReturnVoid", "hThrowRpc", "hThrowError", "hThrowNull", "hThrowZod"}

\* The (handler, schema, description) triples passed to registerMethod
Registrations ==
    { [handler |-> "hReturn", schema |-> "strict", description |-> "returns a value"],
      [handler |-> "hReturnVoid", schema |-> "strict", description |-> "returns nothing"],
      [handler |-> "hThrowRpc", schema |-> "strict", description |-> "throws JsonRpcError"],
      [handler |-> "hThrowError", schema |-> "optional", description |-> "throws Error"],
      [handler |-> "hThrowNull", schema |-> "strict", description |-> "rejects with null"],
      [handler |-> "hThrowZod", schema |-> "strict",
       description |-> "parses a value of its own with zod, which throws ZodError"] }

\* schema.parse(params): "strict" is z.object({...}), "optional" is
\* z.object({...}).optional(); the parsed value is a new object
SchemaParse(schema, params) ==
    IF params = "pOk"
    THEN [ok |-> TRUE, value |-> "parsed(pOk)"]
    ELSE IF params = Undefined /\ schema = "optional"
    THEN [ok |-> TRUE, value |-> Undefined]
    ELSE [ok |-> FALSE, value |-> Undefined]

\* What a promise settles to
Fulfilled(v) == [st |-> "fulfilled", value |-> v, error |-> Nullish]
RejectedWith(e) == [st |-> "rejected", value |-> Undefined, error |-> e]

\* method.handler(validatedParams, context): the handler's promise
HandlerResult(h, args) ==
    CASE h = "hReturn" -> Fulfilled("result-of-hReturn")
      [] h = "hReturnVoid" -> Fulfilled(Undefined)
      [] h = "hThrowRpc" ->
            RejectedWith(JsonRpcError("handler rpc error", WP_VALIDATION_ERROR, DataCustom))
      [] h = "hThrowError" -> RejectedWith(PlainError("Error", "Method failed"))
      [] h = "hThrowZod" -> RejectedWith(ZodError)
      [] OTHER -> RejectedWith(Nullish)

\* A catch block that reads error?.name and so rethrows null and undefined
InvokeCatchPassesNullish(error) ==
    IF error.kind = "nullish"
    THEN RejectedWith(error)
    ELSE IF error.name = "ZodError"
    THEN RejectedWith(JsonRpcError("Invalid params", INVALID_PARAMS, DataZodFormat))
    ELSE RejectedWith(error)

\* A catch block that rethrows whatever it caught
InvokeCatchRethrows(error) ==
    IF error.kind = "nullish"
    THEN RejectedWith(TypeErrorOnNullish)
    ELSE RejectedWith(error)

\* The catch block of invokeMethod: reading error.name of null/undefined throws
\* a TypeError, a ZodError becomes INVALID_PARAMS, anything else is rethrown
InvokeCatch(error) ==
    IF error.kind = "nullish"
    THEN RejectedWith(TypeErrorOnNullish)
    ELSE IF error.name = "ZodError"
    THEN RejectedWith(JsonRpcError("Invalid params", INVALID_PARAMS, DataZodFormat))
    ELSE RejectedWith(error)

\* One call method.handler(validatedParams, context)
HandlerCall(handler, args, context) ==
    [handler |-> handler, args |-> args, context |-> context]

\* invokeMethod treating an unknown method as an unexpected failure
InvokeStartUnknownIsUnexpected(registry, methodName, params, context) ==
    LET method == registry[methodName]
        parsed == SchemaParse(method.schema, params)
    IN  IF method = NotRegistered
        THEN [started |-> FALSE, handler |-> "", args |-> Undefined, calls |-> <<>>,
              settled |-> RejectedWith(PlainError("Error", "Method not found"))]
        ELSE IF ~parsed.ok
        THEN [started |-> FALSE, handler |-> "", args |-> Undefined, calls |-> <<>>,
              settled |-> InvokeCatch(ZodError)]
        ELSE [started |-> TRUE, handler |-> method.handler, args |-> parsed.value,
              calls |-> <<HandlerCall(method.handler, parsed.value, context)>>,
              settled |-> Fulfilled(Undefined)]

\* invokeMethod calling the handler with the params as they came
InvokeStartPassesRawParams(registry, methodName, params, context) ==
    LET method == registry[methodName]
        parsed == SchemaParse(method.schema, params)
    IN  IF method = NotRegistered
        THEN [started |-> FALSE, handler |-> "", args |-> Undefined, calls |-> <<>>,
              settled |-> RejectedWith(
                  JsonRpcError("Method not found", METHOD_NOT_FOUND, DataUndefined))]
        ELSE IF ~parsed.ok
        THEN [started |-> FALSE, handler |-> "", args |-> Undefined, calls |-> <<>>,
              settled |-> InvokeCatch(ZodError)]
        ELSE [started |-> TRUE, handler |-> method.handler, args |-> params,
              calls |-> <<HandlerCall(method.handler, params, context)>>,
              settled |-> Fulfilled(Undefined)]

\* invokeMethod up to its await: the registry lookup, schema.parse and the call
\* of the handler happen synchronously in the caller's turn. calls lists the
\* handler calls made.
InvokeStart(registry, methodName, params, context) ==
    LET method == registry[methodName]
        parsed == SchemaParse(method.schema, params)
    IN  IF method = NotRegistered
        THEN [started |-> FALSE, handler |-> "", args |-> Undefined, calls |-> <<>>,
              settled |-> RejectedWith(
                  JsonRpcError("Method not found", METHOD_NOT_FOUND, DataUndefined))]
        ELSE IF ~parsed.ok
        THEN [started |-> FALSE, handler |-> "", args |-> Undefined, calls |-> <<>>,
              settled |-> InvokeCatch(ZodError)]
        ELSE [started |-> TRUE, handler |-> method.handler, args |-> parsed.value,
              calls |-> <<HandlerCall(method.handler, parsed.value, context)>>,
              settled |-> Fulfilled(Undefined)]

\* invokeMethod after its await, once the handler's promise has settled
InvokeSettle(handlerResult) ==
    IF handlerResult.st = "fulfilled"
    THEN handlerResult
    ELSE InvokeCatch(handlerResult.error)

----------------------------------------------------------------------------
(* processRequest for one envelope *)

\* JsonRpcHandler.validateRequest
ValidateRequest(req) ==
    IF req.shape = "primitive"
    THEN [valid |-> FALSE, id |-> Undefined, error |-> "Request must be an object"]
    ELSE IF req.jsonrpc # "2.0"
    THEN [valid |-> FALSE, id |-> req.id, error |-> "Invalid or missing jsonrpc field"]
    ELSE IF req.method = Undefined \/ req.method = ""
    THEN [valid |-> FALSE, id |-> req.id, error |-> "Method must be a non-empty string"]
    ELSE IF req.params # Undefined /\ req.params \notin {"pOk", "pBad"}
    THEN [valid |-> FALSE, id |-> req.id, error |-> "Params must be an object or array"]
    ELSE IF req.id # Undefined /\ req.id \notin Ids
    THEN [valid |-> FALSE, id |-> Null,
          error |-> "Id must be string, number, null, or undefined"]
    ELSE [valid |-> TRUE, id |-> req.id, error |-> ""]

\* handleMethodError building its responses with a null id
HandleMethodErrorDropsId(id, error, env) ==
    IF error.kind = "JsonRpcError"
    THEN CreateErrorResponse(Null, error.code, error.message, error.data)
    ELSE CreateErrorResponse(Null, INTERNAL_ERROR, "Internal server error",
            IF env = "development" THEN DataString(error.message) ELSE DataUndefined)

\* handleMethodError keeping the code and message of a JsonRpcError, not its data
HandleMethodErrorDropsData(id, error, env) ==
    IF error.kind = "JsonRpcError"
    THEN CreateErrorResponse(id, error.code, error.message, DataUndefined)
    ELSE CreateErrorResponse(id, INTERNAL_ERROR, "Internal server error",
            IF env = "development" THEN DataString(error.message) ELSE DataUndefined)

\* JsonRpcHandler.handleMethodError
HandleMethodError(id, error, env) ==
    IF error.kind = "JsonRpcError"
    THEN CreateErrorResponse(id, error.code, error.message, error.data)
    ELSE CreateErrorResponse(id, INTERNAL_ERROR, "Internal server error",
            IF env = "development" THEN DataString(error.message) ELSE DataUndefined)

\* The outer catch of processRequest: reading error.message of null/undefined
\* throws out of the catch block and the promise rejects
OuterCatch(error) ==
    IF error.kind = "nullish"
    THEN Rejected(TypeErrorOnNullish)
    ELSE ResolvedResponse(
            CreateErrorResponse(Null, INTERNAL_ERROR, "Internal error",
                                DataMessageObject(error.message)))

\* The inner catch of processRequest: reading error.name of null/undefined
\* throws into the outer catch
InnerCatch(id, error, env) ==
    IF error.kind = "nullish"
    THEN OuterCatch(TypeErrorOnNullish)
    ELSE ResolvedResponse(HandleMethodError(id, error, env))

\* processRequest after `await this.invokeMethod(...)`, for the notification
\* branch and for the normal method call
AfterInvoke(req, invoked, env) ==
    IF req.id = Undefined
    THEN IF invoked.st = "fulfilled" THEN ResolvedNull ELSE OuterCatch(invoked.error)
    ELSE IF invoked.st = "fulfilled"
         THEN ResolvedResponse(SuccessResponse(invoked.value, req.id))
         ELSE InnerCatch(req.id, invoked.error, env)

\* processRequest on an envelope that failed validateRequest
InvalidRequest(validationResult) ==
    ResolvedResponse(
        CreateErrorResponse(validationResult.id, INVALID_REQUEST, "Invalid Request",
                            DataString(validationResult.error)))

\* processBatchRequest on an empty array
EmptyBatchResult ==
    ResolvedArray(<<CreateErrorResponse(Null, INVALID_REQUEST,
                                        "Invalid Request: Empty batch", DataUndefined)>>)

\* processRequest on a batch item that is an array: Array.isArray holds and
\* the item is handed to processBatchRequest, whose array is the item's result
NestedBatchResult(req) ==
    IF NestedItems(req) = <<>>
    THEN EmptyBatchResult
    ELSE ResolvedArray([k \in 1..Len(NestedItems(req)) |->
                           InvalidRequest(ValidateRequest(NestedItems(req)[k])).resp])

\* The record of one processRequest(request, context) promise
Task(req, ctx, st, handler, args, handlerCalls, out) ==
    [env |-> req, ctx |-> ctx, st |-> st, handler |-> handler, args |-> args,
     calls |-> handlerCalls, out |-> out]

\* processRequest looking the method up before it validates the envelope
StartRequestLooksUpFirst(registry, req, ctx, env) ==
    LET validationResult == ValidateRequest(req)
        inv == InvokeStart(registry, req.method, req.params, ctx)
    IN  IF req.shape \in ArrayShapes
        THEN Task(req, ctx, "settled", "", Undefined, <<>>, NestedBatchResult(req))
        ELSE IF req.method \in MethodNames /\ registry[req.method] = NotRegistered
        THEN Task(req, ctx, "settled", "", Undefined, <<>>, AfterInvoke(req, inv.settled, env))
        ELSE IF ~validationResult.valid
        THEN Task(req, ctx, "settled", "", Undefined, <<>>, InvalidRequest(validationResult))
        ELSE IF ~inv.started
        THEN Task(req, ctx, "settled", "", Undefined, <<>>, AfterInvoke(req, inv.settled, env))
        ELSE Task(req, ctx, "awaiting", inv.handler, inv.args, inv.calls, NotSettled)

\* processRequest(request, context) for a single envelope or for an item of a
\* batch, up to the point where it waits for the handler (or settles without
\* one)
StartRequest(registry, req, ctx, env) ==
    LET validationResult == ValidateRequest(req)
        inv == InvokeStart(registry, req.method, req.params, ctx)
    IN  IF req.shape \in ArrayShapes
        THEN Task(req, ctx, "settled", "", Undefined, <<>>, NestedBatchResult(req))
        ELSE IF ~validationResult.valid
        THEN Task(req, ctx, "settled", "", Undefined, <<>>, InvalidRequest(validationResult))
        ELSE IF ~inv.started
        THEN Task(req, ctx, "settled", "", Undefined, <<>>, AfterInvoke(req, inv.settled, env))
        ELSE Task(req, ctx, "awaiting", inv.handler, inv.args, inv.calls, NotSettled)

\* The same promise once the handler's promise has settled
FinishRequest(task, env) ==
    [task EXCEPT !.st = "settled",
                 !.out = AfterInvoke(task.env,
                             InvokeSettle(HandlerResult(task.handler, task.args)), env)]

----------------------------------------------------------------------------
(* JsonRpcHandler: state and operations *)

NoRegEvent == [name |-> "", wasRegistered |-> FALSE, threw |-> FALSE]
NoRequest == [batch |-> FALSE, items |-> <<>>]

\* Sequences over S of length lo..hi
SeqsOf(S, lo, hi) == UNION { [1..n -> S] : n \in lo..hi }

\* The arguments processRequest is called with: one envelope, or an array
Requests ==
    { [batch |-> FALSE, items |-> <<e>>] : e \in Envelopes }
    \cup { [batch |-> TRUE, items |-> b] : b \in SeqsOf(BatchEnvelopes, 0, MaxBatch) }

RpcInit ==
    /\ phase = "startup"
    /\ methods = [n \in MethodNames |-> NotRegistered]
    /\ regEvent = NoRegEvent
    /\ nodeEnv \in {"development", "production"}
    /\ request = NoRequest
    /\ tasks = <<>>
    /\ callState = "idle"
    /\ callResult = NotSettled

\* registerMethod(name, handler, schema, description): Map.set, then a log line
RegisterMethod(name, reg) ==
    /\ phase = "startup"
    /\ methods' = [methods EXCEPT ![name] =
                      [handler |-> reg.handler, schema |-> reg.schema, name |-> name,
                       description |-> reg.description]]
    /\ regEvent' = [name |-> name, wasRegistered |-> methods[name] # NotRegistered,
                    threw |-> FALSE]
    /\ UNCHANGED <<phase, nodeEnv, request, tasks, callState, callResult>>
    /\ UNCHANGED <<siteVars, keyVars, uriVars>>

\* The server starts listening once the tools are registered
Listen ==
    /\ phase = "startup"
    /\ phase' = "serving"
    /\ regEvent' = NoRegEvent
    /\ UNCHANGED <<methods, nodeEnv, request, tasks, callState, callResult>>
    /\ UNCHANGED <<siteVars, keyVars, uriVars>>

\* A batch whose first item alone is started; the others wait their turn
ProcessRequestSerial(req) ==
    /\ phase = "serving"
    /\ callState = "idle"
    /\ request' = req
    /\ IF req.batch /\ Len(req.items) = 0
       THEN /\ tasks' = <<>>
            /\ callState' = "returned"
            /\ callResult' = EmptyBatchResult
       ELSE /\ tasks' = [i \in 1..Len(req.items) |->
                           IF i = 1
                           THEN StartRequest(methods, req.items[i],
                                    IF req.batch THEN CreateChild(RootContext, Undefined)
                                                 ELSE RootContext,
                                    nodeEnv)
                           ELSE Task(req.items[i], CreateChild(RootContext, Undefined),
                                     "queued", "", Undefined, <<>>, NotSettled)]
            /\ callState' = "running"
            /\ callResult' = NotSettled
    /\ UNCHANGED <<phase, methods, regEvent, nodeEnv>>
    /\ UNCHANGED <<siteVars, keyVars, uriVars>>

\* processRequest(request, context) up to its first suspension: a batch maps
\* every item to processRequest(item, context.createChild()), all started in
\* the same turn
ProcessRequest(req) ==
    /\ phase = "serving"
    /\ callState = "idle"
    /\ request' = req
    /\ IF req.batch /\ Len(req.items) = 0
       THEN /\ tasks' = <<>>
            /\ callState' = "returned"
            /\ callResult' = EmptyBatchResult
       ELSE /\ tasks' = [i \in 1..Len(req.items) |->
                           StartRequest(methods, req.items[i],
                               IF req.batch THEN CreateChild(RootContext, Undefined)
                                            ELSE RootContext,
                               nodeEnv)]
            /\ callState' = "running"
            /\ callResult' = NotSettled
    /\ UNCHANGED <<phase, methods, regEvent, nodeEnv>>
    /\ UNCHANGED <<siteVars, keyVars, uriVars>>

\* The handler awaited by item i settles, and that item's processRequest with it
HandlerSettles(i) ==
    /\ callState = "running"
    /\ i \in 1..Len(tasks)
    /\ tasks[i].st = "awaiting"
    /\ tasks' = [tasks EXCEPT ![i] = FinishRequest(@, nodeEnv)]
    /\ UNCHANGED <<phase, methods, regEvent, nodeEnv, request, callState, callResult>>
    /\ UNCHANGED <<siteVars, keyVars, uriVars>>

\* responses.filter(response => response !== null)
FilterNonNull(ts) ==
    LET kept == SelectSeq(ts, LAMBDA t : t.out.tag # "null")
    IN  [k \in 1..Len(kept) |->
            IF kept[k].out.tag = "array" THEN ArrayElement ELSE kept[k].out.resp]

\* A batch that gives up as soon as one item ended in an internal error
BatchResultFailFast(ts) ==
    IF \E i \in 1..Len(ts) :
          \/ ts[i].out.tag = "rejected"
          \/ ts[i].out.tag = "response" /\ ts[i].out.resp.error.code = INTERNAL_ERROR
    THEN Rejected(PlainError("Error", "batch item failed"))
    ELSE ResolvedArray(FilterNonNull(ts))

\* await Promise.all(...) in processBatchRequest, then the filter
BatchResult(ts) ==
    IF \E i \in 1..Len(ts) : ts[i].out.tag = "rejected"
    THEN Rejected(ts[CHOOSE i \in 1..Len(ts) : ts[i].out.tag = "rejected"].out.reason)
    ELSE ResolvedArray(FilterNonNull(ts))

\* The promise returned by processRequest settles
Return ==
    /\ callState = "running"
    /\ IF request.batch
       THEN \/ \A i \in 1..Len(tasks) : tasks[i].st = "settled"
            \/ \E i \in 1..Len(tasks) : tasks[i].out.tag = "rejected"
       ELSE tasks[1].st = "settled"
    /\ callResult' = IF request.batch THEN BatchResult(tasks) ELSE tasks[1].out
    /\ callState' = "returned"
    /\ UNCHANGED <<phase, methods, regEvent, nodeEnv, request, tasks>>
    /\ UNCHANGED <<siteVars, keyVars, uriVars>>

\* The transport sends what processRequest settled to (or a 500 when it
\* rejected) and the call is over
Respond ==
    /\ callState = "returned"
    /\ callState' = "idle"
    /\ request' = NoRequest
    /\ tasks' = <<>>
    /\ callResult' = NotSettled
    /\ UNCHANGED <<phase, methods, regEvent, nodeEnv>>
    /\ UNCHANGED <<siteVars, keyVars, uriVars>>

\* A client posts a body: one envelope or an array of envelopes
Post ==
    /\ phase = "serving"
    /\ callState = "idle"
    /\ \E req \in Requests : ProcessRequest(req)

RpcNext ==
    \/ \E name \in MethodNames, reg \in Registrations : RegisterMethod(name, reg)
    \/ Listen
    \/ Post
    \/ \E i \in 1..MaxBatch : HandlerSettles(i)
    \/ Return
    \/ Respond

----------------------------------------------------------------------------
(* WordPressSiteManager: state and operations *)

SiteIds == {"siteA", "siteB"}

\* sites maps a site id to the version of its configuration, NoConfig when the
\* id is not in the map; clients maps it to the cached client, NoClient when
\* there is none. Clients are numbered in the order of their construction.
NoConfig == 0
NoClient == 0
NoSiteEvent == [op |-> "", site |-> "", threw |-> FALSE]

SiteInit ==
    /\ sites \in [SiteIds -> {NoConfig, 1}]
    /\ clients = [t \in SiteIds |-> NoClient]
    /\ calls = <<>>
    /\ nextClient = 0
    /\ probes = 0
    /\ siteEvent = NoSiteEvent

\* One getClient(siteId) call: the client it constructed (NoClient if none), the
\* configuration that client was built from, and how the call ended
GetClientCall(siteId, pc, client, config, result, code) ==
    [site |-> siteId, pc |-> pc, client |-> client, config |-> config,
     result |-> result, code |-> code]

\* getClient without its check that the site is configured
GetClientNoSiteCheck(siteId) ==
    /\ Len(calls) < MaxCalls
    /\ IF clients[siteId] # NoClient
       THEN /\ calls' = Append(calls, GetClientCall(siteId, "returned", NoClient, NoConfig,
                                                    clients[siteId], 0))
            /\ UNCHANGED <<nextClient, probes>>
       ELSE /\ nextClient' = nextClient + 1
            /\ probes' = probes + 1
            /\ calls' = Append(calls, GetClientCall(siteId, "probing", nextClient + 1,
                                                    sites[siteId], NoClient, 0))
    /\ UNCHANGED <<sites, clients, siteEvent>>
    /\ UNCHANGED <<rpcVars, keyVars, uriVars>>

\* getClient putting the client it constructs in the cache before the probe
GetClientCachesAtConstruction(siteId) ==
    /\ Len(calls) < MaxCalls
    /\ IF sites[siteId] = NoConfig
       THEN /\ calls' = Append(calls, GetClientCall(siteId, "threw", NoClient, NoConfig,
                                                    NoClient, UNKNOWN_SITE))
            /\ UNCHANGED <<nextClient, probes, clients>>
       ELSE IF clients[siteId] # NoClient
       THEN /\ calls' = Append(calls, GetClientCall(siteId, "returned", NoClient, NoConfig,
                                                    clients[siteId], 0))
            /\ UNCHANGED <<nextClient, probes, clients>>
       ELSE /\ nextClient' = nextClient + 1
            /\ probes' = probes + 1
            /\ clients' = [clients EXCEPT ![siteId] = nextClient + 1]
            /\ calls' = Append(calls, GetClientCall(siteId, "probing", nextClient + 1,
                                                    sites[siteId], NoClient, 0))
    /\ UNCHANGED <<sites, siteEvent>>
    /\ UNCHANGED <<rpcVars, keyVars, uriVars>>

\* getClient(siteId) up to `await client.checkConnection()`
GetClient(siteId) ==
    /\ Len(calls) < MaxCalls
    /\ IF sites[siteId] = NoConfig
       THEN /\ calls' = Append(calls, GetClientCall(siteId, "threw", NoClient, NoConfig,
                                                    NoClient, UNKNOWN_SITE))
            /\ UNCHANGED <<nextClient, probes>>
       ELSE IF clients[siteId] # NoClient
       THEN /\ calls' = Append(calls, GetClientCall(siteId, "returned", NoClient, NoConfig,
                                                    clients[siteId], 0))
            /\ UNCHANGED <<nextClient, probes>>
       ELSE /\ nextClient' = nextClient + 1
            /\ probes' = probes + 1
            /\ calls' = Append(calls, GetClientCall(siteId, "probing", nextClient + 1,
                                                    sites[siteId], NoClient, 0))
    /\ UNCHANGED <<sites, clients, siteEvent>>
    /\ UNCHANGED <<rpcVars, keyVars, uriVars>>

\* getClient storing the client before it looks at the probe's answer
CheckConnectionSettlesCachesFirst(k, isConnected) ==
    /\ k \in 1..Len(calls)
    /\ calls[k].pc = "probing"
    /\ clients' = [clients EXCEPT ![calls[k].site] = calls[k].client]
    /\ IF ~isConnected
       THEN calls' = [calls EXCEPT ![k].pc = "threw",
                                   ![k].code = CONNECTION_FAILED]
       ELSE calls' = [calls EXCEPT ![k].pc = "returned",
                                   ![k].result = calls[k].client]
    /\ UNCHANGED <<sites, nextClient, probes, siteEvent>>
    /\ UNCHANGED <<rpcVars, keyVars, uriVars>>

\* getClient probing once more when the probe failed
CheckConnectionSettlesRetries(k, isConnected) ==
    /\ k \in 1..Len(calls)
    /\ calls[k].pc = "probing"
    /\ IF ~isConnected
       THEN /\ probes' = probes + 1
            /\ UNCHANGED <<clients, calls>>
       ELSE /\ clients' = [clients EXCEPT ![calls[k].site] = calls[k].client]
            /\ calls' = [calls EXCEPT ![k].pc = "returned",
                                      ![k].result = calls[k].client]
            /\ UNCHANGED probes
    /\ UNCHANGED <<sites, nextClient, siteEvent>>
    /\ UNCHANGED <<rpcVars, keyVars, uriVars>>

\* getClient after the await: checkConnection resolved to isConnected
\* (it catches every request error and resolves to false)
CheckConnectionSettles(k, isConnected) ==
    /\ k \in 1..Len(calls)
    /\ calls[k].pc = "probing"
    /\ IF ~isConnected
       THEN /\ calls' = [calls EXCEPT ![k].pc = "threw",
                                      ![k].code = CONNECTION_FAILED]
            /\ UNCHANGED clients
       ELSE /\ clients' = [clients EXCEPT ![calls[k].site] = calls[k].client]
            /\ calls' = [calls EXCEPT ![k].pc = "returned",
                                      ![k].result = calls[k].client]
    /\ UNCHANGED <<sites, nextClient, probes, siteEvent>>
    /\ UNCHANGED <<rpcVars, keyVars, uriVars>>

\* addSite(siteId, config, credentials): storeCredentials, sites.set, then
\* saveSiteConfigurations; either await may throw
AddSite(siteId, config, outcome) ==
    /\ IF outcome = "storeFailed"
       THEN /\ UNCHANGED sites
            /\ siteEvent' = [op |-> "addSite", site |-> siteId, threw |-> TRUE]
       ELSE /\ sites' = [sites EXCEPT ![siteId] = config]
            /\ siteEvent' = [op |-> "addSite", site |-> siteId,
                             threw |-> outcome = "saveFailed"]
    /\ UNCHANGED <<clients, calls, nextClient, probes>>
    /\ UNCHANGED <<rpcVars, keyVars, uriVars>>

\* removeSite(siteId): clients.delete and sites.delete, then
\* saveSiteConfigurations, which may throw
RemoveSite(siteId, saveOk) ==
    /\ clients' = [clients EXCEPT ![siteId] = NoClient]
    /\ sites' = [sites EXCEPT ![siteId] = NoConfig]
    /\ siteEvent' = [op |-> "removeSite", site |-> siteId,
                     threw |-> sites[siteId] # NoConfig /\ ~saveOk]
    /\ UNCHANGED <<calls, nextClient, probes>>
    /\ UNCHANGED <<rpcVars, keyVars, uriVars>>

SiteNext ==
    \/ \E t \in SiteIds : GetClient(t)
    \/ \E k \in 1..MaxCalls, isConnected \in BOOLEAN : CheckConnectionSettles(k, isConnected)
    \/ \E t \in SiteIds, c \in 1..MaxConfig, outcome \in {"ok", "storeFailed", "saveFailed"} :
          AddSite(t, c, outcome)
    \/ \E t \in SiteIds, saveOk \in BOOLEAN : RemoveSite(t, saveOk)

----------------------------------------------------------------------------
(* ApiKeyManager (auth/api-keys.ts): the active key set and its reloads *)

\* Times are in minutes. The clock starts more than one reload interval after
\* time 0, the initial value of lastLoaded, as Date.now() does.
RELOAD_INTERVAL == 5
StartTime == RELOAD_INTERVAL + 1
ExpiryTime == StartTime + 1

\* ApiKey.expires is null for a key that never expires
NoExpiry == 0

ApiKey(key, clientId, permissions, authorizedSites, active, expires) ==
    [key |-> key, clientId |-> clientId, permissions |-> permissions,
     authorizedSites |-> authorizedSites, active |-> active, expires |-> expires]

KeyStrings == {"kA", "kB", "kX"}

\* The documents a key file or the API_KEYS variable can hold, as the value of
\* their "keys" member
StorageKeys(doc) ==
    CASE doc = "doc1" -> <<ApiKey("kA", "c1", "read", "siteA", TRUE, NoExpiry),
                           ApiKey("kB", "c2", "write", "siteB", TRUE, ExpiryTime)>>
      [] doc = "doc2" -> <<ApiKey("kA", "c3", "read", "siteA", FALSE, NoExpiry),
                           ApiKey("kA", "c4", "write", "siteB", TRUE, NoExpiry)>>
      [] OTHER -> Undefined

\* storage.keys || []
KeysOrEmpty(doc) == IF StorageKeys(doc) = Undefined THEN <<>> ELSE StorageKeys(doc)

\* What fs.readFile followed by JSON.parse can come to
FileOutcomes == {"doc1", "doc2", "docNoKeys", "unreadable", "unparsable"}
FileFailures == {"unreadable", "unparsable"}

\* process.env at the time of a load: API_KEYS and API_KEY
Env(apiKeys, apiKey) == [API_KEYS |-> apiKeys, API_KEY |-> apiKey]
EnvStates ==
    {Env("doc1", Undefined), Env("doc2", Undefined), Env("unparsable", "kA"),
     Env("unparsable", Undefined), Env(Undefined, "kA"), Env(Undefined, Undefined)}

\* loadKeysFromEnv: the value it assigns to this.keys
LoadKeysFromEnv(env) ==
    IF env.API_KEYS # Undefined /\ env.API_KEYS # "unparsable"
    THEN KeysOrEmpty(env.API_KEYS)
    ELSE IF env.API_KEY # Undefined
         THEN <<ApiKey(env.API_KEY, "default-client", "read,write", "*", TRUE, NoExpiry)>>
         ELSE <<>>

Sources == {"file", "env", "aws"}

\* What a load read: the outcome of the file read, or the environment
NoEnv == Env(Undefined, Undefined)
LoadEvent(src, file, env) == [source |-> src, file |-> file, env |-> env]
NoLoadEvent == LoadEvent("none", Undefined, NoEnv)

\* The result of validateApiKey; its scopes are always the empty array
EmptyArray == "[]"
InvalidKey ==
    [valid |-> FALSE, clientId |-> Undefined, authorizedSites |-> Undefined,
     permissions |-> Undefined, scopes |-> Undefined]
ValidKey(key) ==
    [valid |-> TRUE, clientId |-> key.clientId, authorizedSites |-> key.authorizedSites,
     permissions |-> key.permissions, scopes |-> EmptyArray]

\* this.keys.find(k => k.key === apiKey): the index of the first match, 0 if none
Find(ks, apiKey) ==
    IF \E i \in 1..Len(ks) : ks[i].key = apiKey
    THEN CHOOSE i \in 1..Len(ks) :
            /\ ks[i].key = apiKey
            /\ \A j \in 1..(i - 1) : ks[j].key # apiKey
    ELSE 0

\* key.expires && new Date(key.expires) < new Date()
Expired(key, t) == key.expires # NoExpiry /\ key.expires < t

\* A lookup that does not look at the expiry of the record it finds
LookupApiKeyIgnoresExpiry(ks, apiKey, t) ==
    LET i == Find(ks, apiKey) IN
    IF i = 0 THEN InvalidKey
    ELSE IF ~ks[i].active THEN InvalidKey
    ELSE ValidKey(ks[i])

\* validateApiKey after its reloadIfNeeded call: the lookup in the key set ks
LookupApiKey(ks, apiKey, t) ==
    LET i == Find(ks, apiKey) IN
    IF i = 0 THEN InvalidKey
    ELSE IF ~ks[i].active THEN InvalidKey
    ELSE IF Expired(ks[i], t) THEN InvalidKey
    ELSE ValidKey(ks[i])

NoValidation ==
    [apiKey |-> Undefined, result |-> InvalidKey, duringLoad |-> FALSE, flip |-> FALSE]

\* What the authentication middleware made of a request: the two headers it
\* read, the key it passed to validateApiKey and the verdict it got, the
\* response it sent (status 0: none), whether it called next(), and the
\* req.authContext it attached
NoAuthContext ==
    [clientId |-> Undefined, authorizedSites |-> Undefined, permissions |-> Undefined,
     scopes |-> Undefined]
AuthEvent(xApiKey, xMcpKey, validated, auth, status, code, message, next, authContext) ==
    [xApiKey |-> xApiKey, xMcpKey |-> xMcpKey, validated |-> validated, auth |-> auth,
     status |-> status, code |-> code, message |-> message, next |-> next,
     authContext |-> authContext]
NoAuthEvent ==
    AuthEvent(Undefined, Undefined, Undefined, InvalidKey, 0, 0, "", FALSE, NoAuthContext)

\* req.header('X-API-Key') || req.header('X-MCP-Key')
HeaderKey(xApiKey, xMcpKey) == IF xApiKey # Undefined THEN xApiKey ELSE xMcpKey
\* The X-API-Key and X-MCP-Key headers of the requests considered: neither,
\* one of them, or both
Headers(xApiKey, xMcpKey) == [xApiKey |-> xApiKey, xMcpKey |-> xMcpKey]
HeaderCases ==
    {Headers(Undefined, Undefined), Headers("kA", Undefined), Headers(Undefined, "kA"),
     Headers(Undefined, "kB"), Headers("kX", "kA")}

KeysInit ==
    /\ source \in Sources
    /\ keys = <<>>
    /\ loading = FALSE
    /\ lastLoaded = 0
    /\ now = StartTime
    /\ loadEvent = NoLoadEvent
    /\ lastValidation = NoValidation
    /\ reads = 0
    /\ authEvent = NoAuthEvent

\* A loadKeys that starts a load whether or not one is in progress
LoadKeysIgnoresLoading(env) ==
    IF source = "file"
    THEN /\ loading' = TRUE
         /\ reads' = reads + 1
         /\ UNCHANGED <<keys, lastLoaded, loadEvent>>
    ELSE IF source = "env"
    THEN /\ keys' = LoadKeysFromEnv(env)
         /\ lastLoaded' = now
         /\ loadEvent' = LoadEvent("env", Undefined, env)
         /\ UNCHANGED <<loading, reads>>
    ELSE /\ lastLoaded' = now
         /\ loadEvent' = LoadEvent(source, Undefined, NoEnv)
         /\ UNCHANGED <<keys, loading, reads>>

\* loadKeys up to its first suspension: nothing when a load is in progress; a
\* file load stops at fs.readFile with loading set; an env load runs to its end
\* without suspending; any other source loads nothing and stamps lastLoaded
LoadKeys(env) ==
    IF loading
    THEN UNCHANGED <<keys, loading, lastLoaded, loadEvent, reads>>
    ELSE IF source = "file"
    THEN /\ loading' = TRUE
         /\ reads' = reads + 1
         /\ UNCHANGED <<keys, lastLoaded, loadEvent>>
    ELSE IF source = "env"
    THEN /\ keys' = LoadKeysFromEnv(env)
         /\ lastLoaded' = now
         /\ loadEvent' = LoadEvent("env", Undefined, env)
         /\ UNCHANGED <<loading, reads>>
    ELSE /\ lastLoaded' = now
         /\ loadEvent' = LoadEvent(source, Undefined, NoEnv)
         /\ UNCHANGED <<keys, loading, reads>>

\* initialize()
Initialize(env) ==
    /\ LoadKeys(env)
    /\ UNCHANGED <<source, now, lastValidation, authEvent>>
    /\ UNCHANGED <<rpcVars, siteVars, uriVars>>

\* reloadIfNeeded(): loadKeys() is called, and not awaited, when the key set
\* is older than the reload interval
ReloadIfNeeded(env) ==
    IF now - lastLoaded > RELOAD_INTERVAL
    THEN LoadKeys(env)
    ELSE UNCHANGED <<keys, loading, lastLoaded, loadEvent, reads>>

\* The body of validateApiKey(apiKey): reloadIfNeeded, then the lookup
ValidateApiKeyCall(apiKey, env) ==
    /\ ReloadIfNeeded(env)
    /\ lastValidation' =
          [apiKey |-> apiKey, result |-> LookupApiKey(keys', apiKey, now),
           duringLoad |-> loading', flip |-> ~lastValidation.flip]

\* validateApiKey(apiKey)
ValidateApiKey(apiKey, env) ==
    /\ ValidateApiKeyCall(apiKey, env)
    /\ UNCHANGED <<source, now, authEvent>>
    /\ UNCHANGED <<rpcVars, siteVars, uriVars>>

\* res.status(401).json({jsonrpc, error: {code: WP_AUTH_ERROR, message}, id: null})
Reply401(xApiKey, xMcpKey, validated, auth, message) ==
    AuthEvent(xApiKey, xMcpKey, validated, auth, 401, WP_AUTH_ERROR, message, FALSE,
              NoAuthContext)

\* req.authContext = {...}; next()
Accept(xApiKey, xMcpKey, validated, auth) ==
    AuthEvent(xApiKey, xMcpKey, validated, auth, 0, 0, "", TRUE,
              [clientId |-> auth.clientId, authorizedSites |-> auth.authorizedSites,
               permissions |-> auth.permissions, scopes |-> auth.scopes])

\* A middleware that lets a request through whatever the verdict on its key
AuthMiddlewareIgnoresVerdict(xApiKey, xMcpKey, env) ==
    LET apiKey == HeaderKey(xApiKey, xMcpKey) IN
    /\ IF apiKey = Undefined
       THEN /\ authEvent' = Reply401(xApiKey, xMcpKey, Undefined, InvalidKey,
                                     "Authentication required")
            /\ UNCHANGED <<keys, loading, lastLoaded, loadEvent, reads, lastValidation>>
       ELSE /\ ValidateApiKeyCall(apiKey, env)
            /\ authEvent' = Accept(xApiKey, xMcpKey, apiKey, lastValidation'.result)
    /\ UNCHANGED <<source, now>>
    /\ UNCHANGED <<rpcVars, siteVars, uriVars>>

\* The middleware returned by createAuthMiddleware, on a request with the
\* given X-API-Key and X-MCP-Key headers. validateApiKey does not throw, so
\* the catch branch (status 500) is never taken.
AuthMiddleware(xApiKey, xMcpKey, env) ==
    LET apiKey == HeaderKey(xApiKey, xMcpKey) IN
    /\ IF apiKey = Undefined
       THEN /\ authEvent' = Reply401(xApiKey, xMcpKey, Undefined, InvalidKey,
                                     "Authentication required")
            /\ UNCHANGED <<keys, loading, lastLoaded, loadEvent, reads, lastValidation>>
       ELSE /\ ValidateApiKeyCall(apiKey, env)
            /\ authEvent' =
                  IF ~lastValidation'.result.valid
                  THEN Reply401(xApiKey, xMcpKey, apiKey, lastValidation'.result,
                                "Invalid API key")
                  ELSE Accept(xApiKey, xMcpKey, apiKey, lastValidation'.result)
    /\ UNCHANGED <<source, now>>
    /\ UNCHANGED <<rpcVars, siteVars, uriVars>>

\* A file load that adds the records it read to the active key set
FileReadSettlesAppends(outcome) ==
    /\ reads > 0
    /\ source = "file"
    /\ IF outcome \in FileFailures
       THEN UNCHANGED <<keys, lastLoaded>>
       ELSE /\ keys' = keys \o KeysOrEmpty(outcome)
            /\ lastLoaded' = now
    /\ loadEvent' = LoadEvent("file", outcome, NoEnv)
    /\ loading' = FALSE
    /\ reads' = reads - 1
    /\ UNCHANGED <<source, now, lastValidation, authEvent>>
    /\ UNCHANGED <<rpcVars, siteVars, uriVars>>

\* The fs.readFile of a file load settles and loadKeys runs to its end: the
\* catch keeps keys and lastLoaded, the finally clears the loading flag
FileReadSettles(outcome) ==
    /\ reads > 0
    /\ source = "file"
    /\ IF outcome \in FileFailures
       THEN UNCHANGED <<keys, lastLoaded>>
       ELSE /\ keys' = KeysOrEmpty(outcome)
            /\ lastLoaded' = now
    /\ loadEvent' = LoadEvent("file", outcome, NoEnv)
    /\ loading' = FALSE
    /\ reads' = reads - 1
    /\ UNCHANGED <<source, now, lastValidation, authEvent>>
    /\ UNCHANGED <<rpcVars, siteVars, uriVars>>

\* A minute passes
Tick ==
    /\ now < MaxTime
    /\ now' = now + 1
    /\ UNCHANGED <<source, keys, loading, lastLoaded, loadEvent, lastValidation,
                   reads, authEvent>>
    /\ UNCHANGED <<rpcVars, siteVars, uriVars>>

KeysNext ==
    \/ \E env \in EnvStates : Initialize(env)
    \/ \E apiKey \in KeyStrings, env \in EnvStates : ValidateApiKey(apiKey, env)
    \/ \E h \in HeaderCases, env \in EnvStates : AuthMiddleware(h.xApiKey, h.xMcpKey, env)
    \/ \E outcome \in FileOutcomes : FileReadSettles(outcome)
    \/ Tick

----------------------------------------------------------------------------
(* ResourceUri (types/resources.ts): resource URIs. A string is the sequence
   of its characters. *)

SCHEME == <<"w", "o", "r", "d", "p", "r", "e", "s", "s">>
SchemePrefix == SCHEME \o <<":", "/", "/">>

\* Characters of the strings the model builds
UriChars == {"a", "b", "/"}
Strings(maxLen) == UNION { [1..n -> UriChars] : n \in 0..maxLen }

\* ResourceUri.create(site, type, id)
Create(site, type, id) == SchemePrefix \o site \o <<"/">> \o type \o <<"/">> \o id

\* The result of ResourceUri.parse: null, or the three components
ParseNull == [ok |-> FALSE, site |-> <<>>, type |-> <<>>, id |-> <<>>]
Components(site, type, id) == [ok |-> TRUE, site |-> site, type |-> type, id |-> id]

\* A parse whose last group takes the rest of the string, slashes included
ParseRestAsId(uri) ==
    LET n == Len(SchemePrefix)
        rest == SubSeq(uri, n + 1, Len(uri))
        slashes == {i \in 1..Len(rest) : rest[i] = "/"}
    IN  IF Len(uri) < n \/ SubSeq(uri, 1, n) # SchemePrefix THEN ParseNull
        ELSE IF Cardinality(slashes) < 2 THEN ParseNull
        ELSE LET p1 == CHOOSE i \in slashes : \A j \in slashes : i <= j
                 p2 == CHOOSE i \in slashes \ {p1} : \A j \in slashes \ {p1} : i <= j
             IN  IF p1 = 1 \/ p2 = p1 + 1 \/ p2 = Len(rest) THEN ParseNull
                 ELSE Components(SubSeq(rest, 1, p1 - 1), SubSeq(rest, p1 + 1, p2 - 1),
                                 SubSeq(rest, p2 + 1, Len(rest)))

\* ResourceUri.parse(uri): a match of ^wordpress://([^/]+)/([^/]+)/([^/]+)$,
\* that is the prefix followed by exactly three non-empty runs of characters
\* other than "/", separated by single slashes
Parse(uri) ==
    LET n == Len(SchemePrefix)
        rest == SubSeq(uri, n + 1, Len(uri))
        slashes == {i \in 1..Len(rest) : rest[i] = "/"}
    IN  IF Len(uri) < n \/ SubSeq(uri, 1, n) # SchemePrefix THEN ParseNull
        ELSE IF Cardinality(slashes) # 2 THEN ParseNull
        ELSE LET p1 == CHOOSE i \in slashes : \A j \in slashes : i <= j
                 p2 == CHOOSE i \in slashes : \A j \in slashes : j <= i
             IN  IF p1 = 1 \/ p2 = p1 + 1 \/ p2 = Len(rest) THEN ParseNull
                 ELSE Components(SubSeq(rest, 1, p1 - 1), SubSeq(rest, p1 + 1, p2 - 1),
                                 SubSeq(rest, p2 + 1, Len(rest)))

\* The beginnings of the URIs clients present
Prefixes ==
    { SchemePrefix, <<>>, <<"i", "n", "v", "a", "l", "i", "d", ":", "/", "/">>,
      SCHEME \o <<":", "/">>, <<"a">> \o SchemePrefix }
UriTexts == { pre \o body : pre \in Prefixes, body \in Strings(MaxUriLen) }

NoArgs == [given |-> FALSE, site |-> <<>>, type |-> <<>>, id |-> <<>>]
NotParsed == [done |-> FALSE, value |-> ParseNull]

UriInit ==
    /\ uriArgs = NoArgs
    /\ uriText = <<>>
    /\ uriParsed = NotParsed

\* No URI is being handled
UriAtRest == uriArgs = NoArgs /\ uriText = <<>> /\ uriParsed = NotParsed

\* A resource provider builds the URI of a resource
CreateUri(site, type, id) ==
    /\ uriArgs' = [given |-> TRUE, site |-> site, type |-> type, id |-> id]
    /\ uriText' = Create(site, type, id)
    /\ uriParsed' = NotParsed
    /\ UNCHANGED <<rpcVars, siteVars, keyVars>>

\* A client presents a URI of its own
PresentUri(text) ==
    /\ uriArgs' = NoArgs
    /\ uriText' = text
    /\ uriParsed' = NotParsed
    /\ UNCHANGED <<rpcVars, siteVars, keyVars>>

\* The URI at hand is parsed
ParseUri ==
    /\ ~uriParsed.done
    /\ uriParsed' = [done |-> TRUE, value |-> Parse(uriText)]
    /\ UNCHANGED <<uriArgs, uriText>>
    /\ UNCHANGED <<rpcVars, siteVars, keyVars>>

\* The components are used and the URI is dropped
ForgetUri ==
    /\ uriParsed.done
    /\ uriArgs' = NoArgs
    /\ uriText' = <<>>
    /\ uriParsed' = NotParsed
    /\ UNCHANGED <<rpcVars, siteVars, keyVars>>

\* One URI is handled at a time: built or presented, parsed, dropped
NewUri ==
    /\ UriAtRest
    /\ \/ \E site \in Strings(MaxLen), type \in Strings(MaxLen), id \in Strings(MaxLen) :
             CreateUri(site, type, id)
       \/ \E text \in UriTexts : PresentUri(text)

UriNext ==
    \/ NewUri
    \/ ParseUri
    \/ ForgetUri

----------------------------------------------------------------------------
(* Specifications *)

Init == RpcInit /\ SiteInit /\ KeysInit /\ UriInit

\* Each component is exercised with the other two at rest
InitRpc == Init /\ sites = [t \in SiteIds |-> NoConfig] /\ source = "file"
InitSites == Init /\ nodeEnv = "production" /\ source = "file"
InitKeys == Init /\ sites = [t \in SiteIds |-> NoConfig] /\ nodeEnv = "production"
InitUri == InitKeys /\ source = "file"

\* The JSON-RPC engine alone
SpecRpc == InitRpc /\ [][RpcNext]_vars

\* The site manager alone
SpecSites == InitSites /\ [][SiteNext]_vars

\* The API key manager alone
SpecKeys == InitKeys /\ [][KeysNext]_vars

\* Resource URIs alone
SpecUri == InitUri /\ [][UriNext]_vars

----------------------------------------------------------------------------
(* Properties of the JSON-RPC engine *)

ReturnedSingle == callState = "returned" /\ ~request.batch
ReturnedBatch == callState = "returned" /\ request.batch /\ Len(request.items) > 0
AllValid(items) == \A i \in 1..Len(items) : ValidateRequest(items[i]).valid

\* What processRequest(req, context) settles to when req is the only envelope
Alone(req) ==
    LET t == StartRequest(methods, req, RootContext, nodeEnv)
    IN  IF t.st = "settled" THEN t.out ELSE FinishRequest(t, nodeEnv).out

\* The items of a batch that carry an id
NonNotifications(items) == SelectSeq(items, LAMBDA e : e.id # Undefined)

\* C1: processRequest on a structurally valid envelope without an id (a
\* notification) returns null, whatever the method lookup, the schema or the
\* handler do.
C1_NotificationReturnsNull ==
    (ReturnedSingle /\ ValidateRequest(request.items[1]).valid
        /\ request.items[1].id = Undefined)
    => callResult = ResolvedNull

\* C3: the response to a single, structurally valid envelope with an id carries
\* exactly that id, whether the handler returns, throws a JsonRpcError or
\* throws/rejects with anything else, null and undefined included.
C3_ResponseIdEqualsRequestId ==
    (ReturnedSingle /\ ValidateRequest(request.items[1]).valid
        /\ request.items[1].id \in Ids)
    => /\ callResult.tag = "response"
       /\ callResult.resp.id = request.items[1].id

C3_Witness ==
    /\ ReturnedSingle
    /\ request.items[1].id = "2"
    /\ tasks[1].handler = "hThrowNull"
    /\ callResult.tag = "response"
    /\ callResult.resp.has = "error"
    /\ callResult.resp.id = "2"

\* C4: in a non-empty batch the failure of an item never makes processRequest
\* reject, and every item settles to what it settles to when processed alone;
\* the responses of the siblings are all in the returned array.
C4_BatchItemsIndependent ==
    ReturnedBatch
    => /\ callResult.tag = "array"
       /\ \A i \in 1..Len(request.items) :
            /\ tasks[i].out = Alone(request.items[i])
            /\ tasks[i].out.tag = "response"
                => \E k \in 1..Len(callResult.resps) :
                      callResult.resps[k] = tasks[i].out.resp

C4_Witness ==
    /\ ReturnedBatch
    /\ Len(request.items) = 2
    /\ request.items[1].id = Undefined
    /\ tasks[1].handler = "hThrowNull"
    /\ request.items[2].id = "1"
    /\ tasks[2].handler = "hReturn"
    /\ callResult.tag = "array"
    /\ \E k \in 1..Len(callResult.resps) :
          callResult.resps[k] = SuccessResponse("result-of-hReturn", "1")

\* C5: registerMethod with a name that is already registered throws and
\* leaves the registered handler, schema and description in place.
C5_DuplicateRegistrationThrows ==
    regEvent.wasRegistered => regEvent.threw

\* C6: processRequest([]) returns one INVALID_REQUEST error response with id
\* null that is not wrapped in an array.
C6_EmptyBatchSingleResponse ==
    (callState = "returned" /\ request.batch /\ Len(request.items) = 0)
    => /\ callResult.tag = "response"
       /\ callResult.resp.error.code = INVALID_REQUEST
       /\ callResult.resp.id = Null

\* C7: in the array returned for a non-empty batch the response at position k
\* answers the k-th non-notification request of the input, in whatever order
\* the handlers completed.
C7_ResponsesInRequestOrder ==
    (ReturnedBatch /\ AllValid(request.items) /\ callResult.tag = "array")
    => \A k \in 1..Len(callResult.resps) :
          /\ k <= Len(NonNotifications(request.items))
          /\ callResult.resps[k].id = NonNotifications(request.items)[k].id

\* C8: the array returned for a non-empty batch has as many elements as the
\* batch has items that carry an id, whatever the items' outcomes.
C8_OneResponsePerNonNotification ==
    (ReturnedBatch /\ AllValid(request.items) /\ callResult.tag = "array")
    => Len(callResult.resps) = Len(NonNotifications(request.items))

----------------------------------------------------------------------------
(* Properties of the site manager *)

CallIndexes == 1..Len(calls)

\* C2: a client in the cache is never replaced by another client: of the
\* clients that interleaved getClient calls construct for one site, at most one
\* is retained and none that passed its probe is overwritten.
C2_NoCachedClientOverwritten ==
    [][\A t \in SiteIds :
          (clients[t] # NoClient /\ clients'[t] # NoClient) => clients'[t] = clients[t]]_vars

----------------------------------------------------------------------------
(* Properties of the JSON-RPC engine: validation and error mapping *)

\* The envelope of task t is a structurally valid request with an id
RequestWithId(t) == ValidateRequest(t.env).valid /\ t.env.id \in Ids

\* The handler of task t was called and its promise rejected with a value
\* that is not a JsonRpcError
UntaggedFailure(t) ==
    /\ t.st = "settled"
    /\ t.handler # ""
    /\ HandlerResult(t.handler, t.args).st = "rejected"
    /\ HandlerResult(t.handler, t.args).error.kind # "JsonRpcError"

\* C16: a single envelope (not an array, which is a batch) with a structural
\* fault settles, without waiting, to an INVALID_REQUEST response; no handler
\* is called for it and the response is the same whether or not its method is
\* registered.
C16_ValidationBeforeLookup ==
    \A i \in 1..Len(tasks) :
        (tasks[i].env.shape \notin ArrayShapes /\ ~ValidateRequest(tasks[i].env).valid)
        => /\ tasks[i].st = "settled"
           /\ tasks[i].handler = ""
           /\ tasks[i].out.tag = "response"
           /\ tasks[i].out.resp.has = "error"
           /\ tasks[i].out.resp.error.code = INVALID_REQUEST
           /\ tasks[i].out.resp.error.message = "Invalid Request"

\* An envelope with a wrong jsonrpc member naming a registered method, and
\* another run with the method unregistered, both answered INVALID_REQUEST
C16_Witness ==
    /\ ReturnedSingle
    /\ request.items[1].jsonrpc = "1.0"
    /\ request.items[1].id = "1"
    /\ methods["m1"] # NotRegistered
    /\ callResult.resp.error.code = INVALID_REQUEST

\* C17: when the handler of a request with an id fails with a value that is
\* not a JsonRpcError, whatever its name or shape, the response is an
\* INTERNAL_ERROR error response.
C17_UntaggedFailureIsInternalError ==
    \A i \in 1..Len(tasks) :
        (RequestWithId(tasks[i]) /\ UntaggedFailure(tasks[i]))
        => /\ tasks[i].out.tag = "response"
           /\ tasks[i].out.resp.has = "error"
           /\ tasks[i].out.resp.error.code = INTERNAL_ERROR

\* C18: when the handler of a request with an id throws a JsonRpcError, the
\* error response carries exactly its code, message and data, and the
\* request's id.
C18_JsonRpcErrorPassedVerbatim ==
    \A i \in 1..Len(tasks) :
        LET t == tasks[i]
            thrown == HandlerResult(t.handler, t.args)
        IN  (RequestWithId(t) /\ t.st = "settled" /\ t.handler # ""
                /\ thrown.st = "rejected" /\ thrown.error.kind = "JsonRpcError")
            => t.out = ResolvedResponse(
                          CreateErrorResponse(t.env.id, thrown.error.code,
                                              thrown.error.message, thrown.error.data))

C18_Witness ==
    /\ ReturnedSingle
    /\ request.items[1].id = "1"
    /\ tasks[1].handler = "hThrowRpc"
    /\ callResult.resp.error.code = WP_VALIDATION_ERROR
    /\ callResult.resp.error.data = DataCustom

\* C19: outside development, no response of processRequest, on the request,
\* notification or batch path, contains the message of an error a handler
\* threw that is not a JsonRpcError.
C19_NoUntaggedMessageInProduction ==
    nodeEnv # "development"
    => \A i \in 1..Len(tasks) :
          LET t == tasks[i]
              thrown == HandlerResult(t.handler, t.args)
          IN  (UntaggedFailure(t) /\ thrown.error.kind = "Error"
                  /\ t.out.tag = "response")
              => /\ t.out.resp.error.message # thrown.error.message
                 /\ t.out.resp.error.data.message # thrown.error.message

\* C20: a structurally valid request with an id whose method is registered
\* and whose params the schema rejects settles, without the handler being
\* called, to an INVALID_PARAMS response with the validation detail as data.
C20_SchemaFailureIsInvalidParams ==
    \A i \in 1..Len(tasks) :
        LET t == tasks[i] IN
        (/\ RequestWithId(t)
         /\ methods[t.env.method] # NotRegistered
         /\ ~SchemaParse(methods[t.env.method].schema, t.env.params).ok)
        => /\ t.st = "settled"
           /\ t.handler = ""
           /\ t.out.tag = "response"
           /\ t.out.resp.id = t.env.id
           /\ t.out.resp.has = "error"
           /\ t.out.resp.error.code = INVALID_PARAMS
           /\ t.out.resp.error.data = DataZodFormat

C20_Witness ==
    /\ ReturnedSingle
    /\ request.items[1].id = "2"
    /\ request.items[1].params = "pBad"
    /\ methods[request.items[1].method].handler = "hReturn"
    /\ callResult.resp.error.code = INVALID_PARAMS
    /\ callResult.resp.error.data = DataZodFormat

\* C21: a structurally valid request with an id whose method is not in the
\* registry settles, without any handler being called, to a METHOD_NOT_FOUND
\* error response carrying the request's id.
C21_UnknownMethodIsMethodNotFound ==
    \A i \in 1..Len(tasks) :
        LET t == tasks[i] IN
        (RequestWithId(t) /\ methods[t.env.method] = NotRegistered)
        => /\ t.st = "settled"
           /\ t.handler = ""
           /\ t.out.tag = "response"
           /\ t.out.resp.has = "error"
           /\ t.out.resp.error.code = METHOD_NOT_FOUND
           /\ t.out.resp.id = t.env.id

\* A request for an unregistered method was answered while another method
\* was registered
C21_Witness ==
    /\ ReturnedSingle
    /\ request.items[1].id = "1"
    /\ request.items[1].method = "m2"
    /\ methods["m2"] = NotRegistered
    /\ methods["m1"] # NotRegistered
    /\ callResult.resp.error.code = METHOD_NOT_FOUND
    /\ callResult.resp.id = "1"

\* C23: when the handler of a request with an id rejects with a plain Error
\* of message M, the error response has code -32000 and message M.
C23_PlainErrorKeepsItsMessage ==
    \A i \in 1..Len(tasks) :
        LET t == tasks[i]
            thrown == HandlerResult(t.handler, t.args)
        IN  (RequestWithId(t) /\ UntaggedFailure(t) /\ thrown.error.name = "Error")
            => /\ t.out.tag = "response"
               /\ t.out.resp.has = "error"
               /\ t.out.resp.error.code = -32000
               /\ t.out.resp.error.message = thrown.error.message

\* C25: the INVALID_REQUEST response to a structurally invalid single
\* envelope has the envelope's id when that id is a string, a number or null,
\* and null otherwise (envelope not an object, id absent, id of another type).
C25_InvalidRequestIdSalvaged ==
    (ReturnedSingle /\ ~ValidateRequest(request.items[1]).valid)
    => /\ callResult.tag = "response"
       /\ callResult.resp.error.code = INVALID_REQUEST
       /\ callResult.resp.id =
             IF request.items[1].id \in Ids THEN request.items[1].id ELSE Null

\* C28: every response envelope processRequest gives, alone or as an element
\* of a batch, contains exactly one of result and error, also when the
\* handler returned undefined.
C28_ExactlyOneOfResultAndError ==
    \A i \in 1..Len(tasks) :
        tasks[i].out.tag = "response"
        => Cardinality(Members(tasks[i].out.resp)) = 1

\* C29: every batch item is processed against a child of the call's context:
\* same correlationId, same authContext, and the parent's path extended by a
\* segment of the child's own.
C29_BatchItemsGetChildContext ==
    request.batch
    => \A i \in 1..Len(tasks) :
          LET ctx == tasks[i].ctx IN
          /\ ctx.correlationId = RootContext.correlationId
          /\ ctx.authContext = RootContext.authContext
          /\ Len(ctx.path) = Len(RootContext.path) + 1
          /\ SubSeq(ctx.path, 1, Len(RootContext.path)) = RootContext.path

\* The envelope of task t reaches the call of a handler
ReachesHandler(t) ==
    /\ ValidateRequest(t.env).valid
    /\ methods[t.env.method] # NotRegistered
    /\ SchemaParse(methods[t.env.method].schema, t.env.params).ok

\* C30: as soon as a batch is being processed, the handler of every item that
\* reaches one has been started, whether or not the handlers of the other
\* items have completed: no item waits for a sibling.
C30_BatchItemsStartTogether ==
    (callState # "idle" /\ request.batch)
    => \A i \in 1..Len(tasks) :
          ReachesHandler(tasks[i])
          => /\ tasks[i].st \in {"awaiting", "settled"}
             /\ tasks[i].handler = methods[tasks[i].env.method].handler

\* The second item's handler has completed while the first item's has not
C30_Witness ==
    /\ callState = "running"
    /\ request.batch
    /\ Len(tasks) = 2
    /\ tasks[1].st = "awaiting"
    /\ tasks[2].st = "settled"
    /\ tasks[2].handler = "hReturn"
    /\ tasks[2].out.tag = "response"

\* C33: for every envelope the handler of its method is called exactly once
\* when the envelope passes validateRequest, names a registered method and
\* has params the schema accepts, and then with the value schema.parse
\* returned, not the params as they came, and with the context of the
\* processRequest call; for every other envelope no handler is called.
C33_HandlerCalledOnceWithParsedParams ==
    \A i \in 1..Len(tasks) :
        LET t == tasks[i] IN
        IF ReachesHandler(t)
        THEN LET method == methods[t.env.method]
                 parsed == SchemaParse(method.schema, t.env.params)
             IN  /\ t.calls = <<HandlerCall(method.handler, parsed.value, t.ctx)>>
                 /\ t.env.params # Undefined => t.calls[1].args # t.env.params
        ELSE t.calls = <<>>

\* A batch of a request with params the schema accepts and a request with
\* params it rejects: one handler call, with the parsed params and the
\* child context of the first item
C33_Witness ==
    /\ ReturnedBatch
    /\ Len(tasks) = 2
    /\ tasks[1].env.params = "pOk"
    /\ tasks[1].calls # <<>>
    /\ tasks[1].calls[1].args = "parsed(pOk)"
    /\ tasks[1].calls[1].context = tasks[1].ctx
    /\ tasks[2].env.params = "pBad"
    /\ methods[tasks[2].env.method] # NotRegistered
    /\ tasks[2].calls = <<>>

\* C37: processRequest never rejects: whatever the input and whatever the
\* handlers do, its promise, and that of every batch item, resolves to a
\* response, an array of responses or null.
C37_ProcessRequestNeverRejects ==
    /\ \A i \in 1..Len(tasks) : tasks[i].out.tag # "rejected"
    /\ callResult.tag # "rejected"
    /\ callState = "returned" => callResult.tag \in {"response", "array", "null"}

\* A notification whose handler rejected with null was answered
C37_Witness ==
    /\ ReturnedSingle
    /\ request.items[1].id = Undefined
    /\ tasks[1].handler = "hThrowNull"
    /\ callResult.tag = "response"
    /\ callResult.resp.error.code = INTERNAL_ERROR

\* C38: every element of the array returned for a non-empty batch is a single
\* response envelope, never an array, also when an item of the batch is an
\* array.
C38_BatchResultIsFlat ==
    (ReturnedBatch /\ callResult.tag = "array")
    => \A k \in 1..Len(callResult.resps) : callResult.resps[k].has \in {"result", "error"}

----------------------------------------------------------------------------
(* Properties of resource URIs *)

\* A usable component: not empty and without a slash
Plain(s) == Len(s) > 0 /\ \A k \in 1..Len(s) : s[k] # "/"

\* text is wordpress://site/type/id for some strings site, type and id, which
\* are all plain when plainOnly is set
OfForm(text, plainOnly) ==
    \E p1, p2 \in 1..Len(text) :
        LET site == SubSeq(text, Len(SchemePrefix) + 1, p1 - 1)
            type == SubSeq(text, p1 + 1, p2 - 1)
            id == SubSeq(text, p2 + 1, Len(text))
        IN  /\ Len(SchemePrefix) < p1 /\ p1 < p2
            /\ plainOnly => (Plain(site) /\ Plain(type) /\ Plain(id))
            /\ text = Create(site, type, id)

\* C24: parse(create(site, type, id)) is {site, type, id} for all strings
\* site, type and id, and parse gives null for every string that is not
\* wordpress://site/type/id for some strings site, type, id.
C24_RoundTripAllStrings ==
    uriParsed.done
    => /\ uriArgs.given
            => uriParsed.value = Components(uriArgs.site, uriArgs.type, uriArgs.id)
       /\ ~OfForm(uriText, FALSE) => uriParsed.value = ParseNull

\* C24, amended: parse(create(site, type, id)) is {site, type, id} for all
\* non-empty strings site, type and id that contain no slash, and parse gives
\* null for every string that is not wordpress://site/type/id for such
\* strings.
C24_RoundTripPlainStrings ==
    uriParsed.done
    => /\ (uriArgs.given /\ Plain(uriArgs.site) /\ Plain(uriArgs.type)
               /\ Plain(uriArgs.id))
            => uriParsed.value = Components(uriArgs.site, uriArgs.type, uriArgs.id)
       /\ ~OfForm(uriText, TRUE) => uriParsed.value = ParseNull

\* A URI built from plain components was parsed back into them
C24_Witness ==
    /\ uriParsed.done
    /\ uriArgs.given
    /\ uriArgs.site = <<"a", "b">>
    /\ uriArgs.type = <<"b">>
    /\ uriArgs.id = <<"a">>
    /\ uriParsed.value = Components(<<"a", "b">>, <<"b">>, <<"a">>)

----------------------------------------------------------------------------
(* Properties of the site manager: the client cache *)

\* Call k returns a client in this step
ReturnsNow(k) ==
    /\ k \in 1..Len(calls')
    /\ calls'[k].pc = "returned"
    /\ k > Len(calls) \/ calls[k].pc # "returned"

\* C22: while the cache holds the client an earlier getClient(T) returned (no
\* removeSite(T) since), every getClient(T) that returns gives that same
\* client, constructing nothing and probing nothing; a getClient(T) made when
\* T is not configured, as after removeSite(T), fails with the unknown-site
\* error.
C22_CachedClientReused ==
    [][/\ \A k \in 1..MaxCalls : ReturnsNow(k) =>
             \A j \in 1..Len(calls) :
                (/\ calls[j].site = calls'[k].site
                 /\ calls[j].pc = "returned"
                 /\ clients[calls[j].site] = calls[j].result)
                => /\ calls'[k].result = calls[j].result
                   /\ nextClient' = nextClient
                   /\ probes' = probes
       /\ (Len(calls') > Len(calls) /\ sites[calls'[Len(calls')].site] = NoConfig)
            => /\ calls'[Len(calls')].pc = "threw"
               /\ calls'[Len(calls')].code = UNKNOWN_SITE]_vars

\* C26: the cache holds for a site, and a getClient call returns, only a
\* client that a call for that site constructed and whose own connectivity
\* probe has completed with true; a client still being probed, or whose probe
\* failed, is visible to nobody.
C26_OnlyProbedClientsVisible ==
    /\ \A t \in SiteIds :
          clients[t] # NoClient
          => \E j \in 1..Len(calls) :
                /\ calls[j].client = clients[t]
                /\ calls[j].site = t
                /\ calls[j].pc = "returned"
    /\ \A k \in 1..Len(calls) :
          calls[k].pc = "returned"
          => \E j \in 1..Len(calls) :
                /\ calls[j].client = calls[k].result
                /\ calls[j].site = calls[k].site
                /\ calls[j].pc = "returned"

\* A second call was handed the cached client the first call had probed
C26_Witness ==
    /\ Len(calls) = 2
    /\ calls[1].pc = "returned"
    /\ calls[2].pc = "returned"
    /\ calls[2].client = NoClient
    /\ calls[2].result = calls[1].client
    /\ clients[calls[2].site] = calls[1].client

C34_CachedSitesAreConfigured ==
    \A t \in SiteIds : clients[t] # NoClient => sites[t] # NoConfig

\* The configuration the client c was constructed from
BuiltFrom(c, cs) ==
    cs[CHOOSE j \in 1..Len(cs) : cs[j].client = c].config

\* C35: the client a getClient(T) call returns was constructed from the
\* configuration T has when the call returns, also after addSite(T, ...)
\* replaced the configuration of a site that was already configured.
C35_ReturnedClientHasCurrentConfig ==
    [][\A k \in 1..Len(calls') :
          ReturnsNow(k) => BuiltFrom(calls'[k].result, calls') = sites'[calls'[k].site]]_vars

\* C39: an addSite or removeSite call that fails, because storing the
\* credentials or saving the configuration file threw, leaves the sites map
\* and the client cache as they were before the call.
C39_FailedChangeLeavesStateAlone ==
    [][(calls' = calls /\ siteEvent'.op # "" /\ siteEvent'.threw)
        => (sites' = sites /\ clients' = clients)]_vars

----------------------------------------------------------------------------
(* Properties of the API key manager *)

\* A record qualifies for apiKey at time t: same key string, active, not expired
Qualifies(key, apiKey, t) == key.key = apiKey /\ key.active /\ ~Expired(key, t)

\* C11: validateApiKey(k) answers { valid: false } whenever the record found
\* for k is inactive or has an expiry in the past, although the key string
\* matches; a valid answer always carries the identity of a record that is
\* active and not expired.
C11_InactiveOrExpiredRejected ==
    [][lastValidation' # lastValidation =>
        LET apiKey == lastValidation'.apiKey
            result == lastValidation'.result
            i == Find(keys', apiKey)
        IN /\ (i # 0 /\ (~keys'[i].active
                          \/ (keys'[i].expires # NoExpiry /\ keys'[i].expires < now)))
                 => result = InvalidKey
           /\ result.valid =>
                 \E j \in 1..Len(keys') :
                    /\ Qualifies(keys'[j], apiKey, now)
                    /\ result.clientId = keys'[j].clientId]_vars

\* An expired key was presented and rejected
C11_Witness ==
    /\ lastValidation.apiKey = "kB"
    /\ ~lastValidation.result.valid
    /\ Find(keys, "kB") # 0
    /\ keys[Find(keys, "kB")].active
    /\ keys[Find(keys, "kB")].expires < now

\* C12: validateApiKey(k) answers valid exactly when the active key set holds
\* a record with key k that is active and not expired, also when several
\* records share the key string; the answer carries that record's clientId,
\* authorizedSites and permissions.
C12_ValidIffSomeRecordQualifies ==
    [][lastValidation' # lastValidation =>
        LET apiKey == lastValidation'.apiKey
            result == lastValidation'.result
            good == {j \in 1..Len(keys') : Qualifies(keys'[j], apiKey, now)}
        IN /\ result.valid <=> good # {}
           /\ result.valid => \E j \in good : result = ValidKey(keys'[j])]_vars

\* The load described by a load event failed: the file could not be read or
\* parsed, or the environment holds no usable key variable
FailedLoad(e) ==
    \/ e.source = "file" /\ e.file \in FileFailures
    \/ /\ e.source = "env"
       /\ e.env.API_KEYS \in {Undefined, "unparsable"}
       /\ e.env.API_KEY = Undefined

\* C13: a key reload that fails (file unreadable or unparsable, environment
\* variable unparsable or missing) leaves the active key set as it was.
C13_FailedReloadKeepsKeys ==
    [][(loadEvent' # loadEvent /\ FailedLoad(loadEvent')) => keys' = keys]_vars

\* C14: for every key source, the verdict of a validateApiKey call is the one
\* the key set active when the call started gives, also when the call finds
\* the key set stale and triggers a reload.
C14_VerdictFromKeysAtCallStart ==
    [][lastValidation' # lastValidation =>
        lastValidation'.result =
            LookupApiKey(keys, lastValidation'.apiKey, now)]_vars

\* The key set a completed load installs
InstalledBy(e) ==
    IF e.source = "file" THEN KeysOrEmpty(e.file) ELSE LoadKeysFromEnv(e.env)

\* C15: the active key set changes only in the step in which a load ends, and
\* then to the complete key set that load read: between two steps, where
\* validateApiKey can run, it is the whole previous set or the whole new one.
C15_KeySetSwappedWhole ==
    [][keys' # keys =>
        /\ ~loading'
        /\ loadEvent'.source \in {"file", "env"}
        /\ loadEvent'.source = "file" => loadEvent'.file \notin FileFailures
        /\ keys' = InstalledBy(loadEvent')]_vars

\* A key was validated against a loaded key set while a load was in progress
C15_Witness ==
    /\ loading
    /\ lastValidation.duringLoad
    /\ lastValidation.result.valid
    /\ keys # <<>>

\* C31: a validateApiKey call starts a key load exactly when more than the
\* reload interval has passed since lastLoaded and no load is in flight; and
\* lastLoaded advances only when a load from the file or the environment
\* succeeded, so that every validation after a failed load starts a new one.
C31_ReloadWhenStaleStampOnSuccess ==
    [][/\ lastValidation' # lastValidation =>
            ((reads' > reads \/ lastLoaded' # lastLoaded)
                <=> (now - lastLoaded > RELOAD_INTERVAL /\ ~loading))
       /\ (lastLoaded' # lastLoaded /\ loadEvent'.source \in {"file", "env"}) =>
            ~FailedLoad(loadEvent')]_vars

\* C36: at most one key load is in flight at any time: a load requested while
\* one is in progress starts no second read, and the loading flag is set
\* exactly while a read is in flight, so it is clear again after every load,
\* failed or not.
C36_AtMostOneLoadInFlight ==
    /\ reads <= 1
    /\ loading <=> reads = 1

\* After a failed load a new load is in flight, and a key was validated
\* while it was
C36_Witness ==
    /\ loading
    /\ reads = 1
    /\ loadEvent.source = "file"
    /\ loadEvent.file \in FileFailures
    /\ lastValidation.duringLoad
    /\ now - lastLoaded > RELOAD_INTERVAL

----------------------------------------------------------------------------
(* Properties of the authentication middleware *)

====
